---- MODULE Spec2Model ----
(***************************************************************************)
(* Model of solarsystem.app.py: a Streamlit page that lets the user pick   *)
(* a planet, type a prompt, type an API key and generate an image with a   *)
(* remote image service, falling back to a locally drawn placeholder.      *)
(*                                                                         *)
(* Streamlit re-executes the whole script, top to bottom, on every user    *)
(* interaction.  Each action below is therefore one complete run of the    *)
(* script (operator Run), triggered by one interaction.  Between runs the  *)
(* only state that survives is st.session_state and the widget values.     *)
(*                                                                         *)
(* Text is a tuple of one-character strings, so that str.strip() is        *)
(* computed and not assumed.                                               *)
(***************************************************************************)
EXTENDS Integers, Sequences, FiniteSets, TLC

VARIABLES
    session,      \* st.session_state: a dict, field name -> value
    user_prompt,  \* value of the prompt text_area widget
    api_key,      \* value of the API key text_input widget
    ui,           \* what the last run of the script rendered
    posts,        \* number of requests sent to the image endpoint so far
    clicks,       \* number of clicks on the generate button so far
    last,         \* the interaction that triggered the last run
    gen_request,  \* the planet and text of the last click that called the service
    now           \* time.time(), in whole seconds

vars == <<session, user_prompt, api_key, ui, posts, clicks, last, gen_request, now>>

-----------------------------------------------------------------------------
(* Bounds *)

MaxGenerates == 2      \* clicks on the generate button
MaxTime == 1           \* the clock runs from 0 to MaxTime

-----------------------------------------------------------------------------
(* Settings and data *)

\* session_state.generated_image = None: no image
None == [source |-> "None"]

PLANETS == <<
    [id |-> "mercury", kr |-> "Suseong",        en |-> "Mercury"],
    [id |-> "venus",   kr |-> "Geumseong",      en |-> "Venus"],
    [id |-> "earth",   kr |-> "Jigu",           en |-> "Earth"],
    [id |-> "mars",    kr |-> "Hwaseong",       en |-> "Mars"],
    [id |-> "jupiter", kr |-> "Mokseong",       en |-> "Jupiter"],
    [id |-> "saturn",  kr |-> "Toseong",        en |-> "Saturn"],
    [id |-> "uranus",  kr |-> "Cheonwangseong", en |-> "Uranus"],
    [id |-> "neptune", kr |-> "Haewangseong",   en |-> "Neptune"] >>

planet_kr_options == { PLANETS[i].kr : i \in DOMAIN PLANETS }

PLANET_BY_KR == [ k \in planet_kr_options |->
                    CHOOSE p \in { PLANETS[i] : i \in DOMAIN PLANETS } : p.kr = k ]

IMG_SIZE == <<"1","0","2","4","x","1","0","2","4">>

MODEL_NAME == "gpt-image-1"

ENDPOINT == "https://api.openai.com/v1/images/generations"

DEFAULT_PROMPT == <<"r","e","s","o","r","t">>

-----------------------------------------------------------------------------
(* Inputs of the user and answers of the remote service *)

UserTexts == { <<>>, <<" ", "\n">>, <<" ", "a">>, DEFAULT_PROMPT }

Keys == { <<>>, <<"\t">>, <<"s", "k">> }

\* The radio choices the user makes (the default, Hwaseong, is one of them)
Choices == { "Geumseong", "Hwaseong" }

\* Raster files the service may encode: a PNG of the requested size, a PNG of
\* another size, and bytes that are no image at all.
PNG(w, h) == [fmt |-> "png", w |-> w, h |-> h]
GARBAGE == [fmt |-> "garbage"]

\* Response bodies: the raw text and what json() makes of it.  NOT_JSON is
\* the parse of a body that is no JSON document (here: an empty body).
NOT_JSON == [not_json |-> TRUE]
Body(text, json) == [text |-> text, json |-> json]
EMPTY_BODY == Body(<<>>, NOT_JSON)
ERROR_BODY == Body(<<"{error}">>, [error |-> [message |-> "m"]])
NO_DATA_BODY == Body(<<"{data:[]}">>, [data |-> <<>>])
NEITHER_BODY == Body(<<"{data:[{}]}">>, [data |-> << [revised_prompt |-> [s |-> "p"]] >>])
URL_BODY == Body(<<"{data:[url]}">>, [data |-> << [url |-> [s |-> "https://host/img.png"]] >>])
B64_BODY(bytes) == Body(<<"{data:[b64]}">>, [data |-> << [b64_json |-> [b64 |-> bytes]] >>])

Bodies == { EMPTY_BODY, ERROR_BODY, NO_DATA_BODY, NEITHER_BODY, URL_BODY,
            B64_BODY(GARBAGE), B64_BODY(PNG(1024, 1024)), B64_BODY(PNG(512, 512)) }

Http(s, b) == [kind |-> "http", status_code |-> s, body |-> b]

\* The answers of the service.  A 3xx status reaches the caller as the final
\* answer when it comes without a Location header to follow.
\* Every body with a success status; with a redirect status an empty body
\* and a well-formed image, with a client error an error object and a
\* well-formed image, with a server error an empty body.
Responses ==
    { [kind |-> "timeout"], [kind |-> "connection_error"] }
    \cup { Http(200, b) : b \in Bodies }
    \cup { Http(300, EMPTY_BODY), Http(300, B64_BODY(PNG(1024, 1024))),
           Http(401, ERROR_BODY), Http(401, B64_BODY(PNG(1024, 1024))),
           Http(500, EMPTY_BODY) }

-----------------------------------------------------------------------------
(* Utility functions *)

Whitespace == { " ", "\n", "\t" }

RECURSIVE lstrip(_)
lstrip(s) == IF s # <<>> /\ Head(s) \in Whitespace THEN lstrip(Tail(s)) ELSE s

RECURSIVE rstrip(_)
rstrip(s) == IF s # <<>> /\ s[Len(s)] \in Whitespace
             THEN rstrip(SubSeq(s, 1, Len(s) - 1)) ELSE s

\* str.strip()
strip_identity(s) == s
strip(s) == rstrip(lstrip(s))

Digits == [ c \in {"0","1","2","3","4","5","6","7","8","9"} |->
              CASE c = "0" -> 0 [] c = "1" -> 1 [] c = "2" -> 2 [] c = "3" -> 3
                [] c = "4" -> 4 [] c = "5" -> 5 [] c = "6" -> 6 [] c = "7" -> 7
                [] c = "8" -> 8 [] c = "9" -> 9 ]

IsInt(s) == s # <<>> /\ \A i \in DOMAIN s : s[i] \in DOMAIN Digits

RECURSIVE ToInt(_)
ToInt(s) == IF s = <<>> THEN 0
            ELSE 10 * ToInt(SubSeq(s, 1, Len(s) - 1)) + Digits[s[Len(s)]]

\* size.lower().split("x"), int(w), int(h); any failure gives 1024, 1024
parse_size(size) ==
    LET xs == { i \in DOMAIN size : size[i] \in {"x", "X"} }
    IN  IF Cardinality(xs) = 1
        THEN LET i == CHOOSE k \in xs : TRUE
                 w == SubSeq(size, 1, i - 1)
                 h == SubSeq(size, i + 1, Len(size))
             IN  IF IsInt(w) /\ IsInt(h) THEN <<ToInt(w), ToInt(h)>>
                 ELSE <<1024, 1024>>
        ELSE <<1024, 1024>>

\* Image.save(buf, "PNG"): the encoded file of a raster
pil_to_bytes(img) == PNG(img.w, img.h)

\* A new w x h raster with the title and the subtitle drawn on it
generate_placeholder_image(title, subtitle, size, obj) ==
    LET wh == parse_size(size)
    IN  [source |-> "PLACEHOLDER", w |-> wh[1], h |-> wh[2],
         title |-> title, subtitle |-> subtitle, obj |-> obj]

-----------------------------------------------------------------------------
(* The remote call *)

NoExc == [type |-> "none", msg |-> <<>>]
Exc(type, msg) == [type |-> type, msg |-> msg]

\* str(n) for a natural number
RECURSIVE Str(_)
Str(n) == LET d == CHOOSE c \in DOMAIN Digits : Digits[c] = n % 10
          IN  IF n < 10 THEN <<d>> ELSE Append(Str(n \div 10), d)

\* Response.raise_for_status(): HTTPError for a 4xx or a 5xx status
raise_for_status_5xx_only(r) == r.status_code >= 500 /\ r.status_code < 600
raise_for_status(r) == r.status_code >= 400 /\ r.status_code < 600

\* key in d and bool(d[key]), for a dict d whose values are dicts or lists
HasTruthy(d, k) == k \in DOMAIN d /\ DOMAIN d[k] # {}

\* "HTTP {r.status_code}: {r.text}"
http_error_message(r) ==
    <<"H", "T", "T", "P", " ">> \o Str(r.status_code) \o <<":", " ">> \o r.body.text

NO_IMAGE_DATA == <<"no image data in the response">>

\* Everything after the POST has returned a response r
decode_response(r, obj) ==
    IF raise_for_status(r)
    THEN [raised |-> Exc("RuntimeError", http_error_message(r)), image |-> None]
    ELSE IF r.body.json = NOT_JSON
    THEN [raised |-> Exc("JSONDecodeError", <<"Expecting value">>), image |-> None]
    ELSE LET j == r.body.json
             data == IF HasTruthy(j, "data") THEN j.data ELSE << <<>> >>
         IN  IF ~ HasTruthy(data[1], "b64_json")
             THEN [raised |-> Exc("RuntimeError", NO_IMAGE_DATA), image |-> None]
             ELSE LET bytes == data[1].b64_json.b64      \* base64.b64decode
                  IN  IF bytes.fmt # "png"  \* Image.open
                      THEN [raised |-> Exc("UnidentifiedImageError",
                                           <<"cannot identify image file">>),
                            image |-> None]
                      ELSE [raised |-> NoExc,
                            image |-> [source |-> "REMOTE", w |-> bytes.w, h |-> bytes.h,
                                       title |-> <<>>, subtitle |-> <<>>, obj |-> obj]]

\* One POST to the endpoint, no retry; the result is the image or the
\* exception raised, together with the requests that went out.
call_openai_image_retry(key, prompt, size, model, resp, obj) ==
    LET req == [url |-> ENDPOINT, authorization |-> key, prompt |-> prompt,
                n |-> 1, size |-> size, model |-> model]
        res == IF resp.kind = "timeout"
               THEN [raised |-> Exc("Timeout", <<"timed out">>), image |-> None]
               ELSE IF resp.kind = "connection_error"
               THEN [raised |-> Exc("ConnectionError", <<"connection failed">>),
                     image |-> None]
               ELSE decode_response(resp, obj)
    IN  [requests |-> IF res.raised = NoExc THEN <<req>> ELSE <<req, req>>,
         raised |-> res.raised, image |-> res.image]

call_openai_image(key, prompt, size, model, resp, obj) ==
    LET req == [url |-> ENDPOINT, authorization |-> key, prompt |-> prompt,
                n |-> 1, size |-> size, model |-> model]
    IN  IF resp.kind = "timeout"
        THEN [requests |-> <<req>>, raised |-> Exc("Timeout", <<"timed out">>),
              image |-> None]
        ELSE IF resp.kind = "connection_error"
        THEN [requests |-> <<req>>,
              raised |-> Exc("ConnectionError", <<"connection failed">>),
              image |-> None]
        ELSE [requests |-> <<req>>] @@ decode_response(resp, obj)

-----------------------------------------------------------------------------
(* One run of the script *)

\* Session state initialisation
session_init == [selected_planet_kr |-> "Hwaseong", generated_image |-> None]

\* st.text_input("OpenAI API Key", type="password") has no key= argument, so
\* its value is handed to the script and is not mirrored into session_state.
api_key_widget_keyed(sess, key) ==
    [k \in DOMAIN sess \cup {"api_key"} |-> IF k = "api_key" THEN key ELSE sess[k]]
api_key_widget(sess, key) == sess

\* The prompt sent to the service: planet names and the student's idea
final_prompt(planet, prompt) == [kr |-> planet.kr, en |-> planet.en, idea |-> prompt]

\* st.session_state.generated_image = None at the start of the handler
reset_generated_image_skipped(sess) == sess
reset_generated_image(sess) == [sess EXCEPT !.generated_image = None]

\* "except Exception": every exception the remote call can raise is one
ExceptionTypes == { "Timeout", "ConnectionError", "RuntimeError", "JSONDecodeError",
                    "UnidentifiedImageError" }
except_RuntimeError(e) == e.type = "RuntimeError"
except_Exception(e) == e.type \in ExceptionTypes

\* The placeholder of the except branch: planet title, "prompt: " + the text
placeholder_title(planet) == <<planet.kr, " (", planet.en, ") ", "travel promo image">>
placeholder_on_error_detail(planet, prompt, e, obj) ==
    generate_placeholder_image(placeholder_title(planet), e.msg, IMG_SIZE, obj)
placeholder_on_error(planet, prompt, e, obj) ==
    generate_placeholder_image(placeholder_title(planet),
                               <<"prompt: ">> \o prompt, IMG_SIZE, obj)

Notice(kind, detail) == [kind |-> kind, detail |-> detail]

\* The body of "if make:"
generate_clicked(sess, planet, prompt, key, resp, obj) ==
    LET s == reset_generated_image(sess)
    IN  IF strip(prompt) = <<>>
        THEN [session |-> s, notice |-> Notice("warning", <<"prompt required">>),
              requests |-> <<>>, escaped |-> FALSE]
        ELSE IF strip(key) = <<>>
        THEN [session |-> s, notice |-> Notice("warning", <<"api key required">>),
              requests |-> <<>>, escaped |-> FALSE]
        ELSE LET r == call_openai_image(key, final_prompt(planet, prompt),
                                        IMG_SIZE, MODEL_NAME, resp, obj)
             IN  IF r.raised = NoExc
                 THEN [session |-> [s EXCEPT !.generated_image = r.image],
                       notice |-> Notice("success", <<>>),
                       requests |-> r.requests, escaped |-> FALSE]
                 ELSE IF except_Exception(r.raised)
                 THEN [session |-> [s EXCEPT !.generated_image =
                                       placeholder_on_error(planet, prompt, r.raised, obj)],
                       notice |-> Notice("error", r.raised.msg),
                       requests |-> r.requests, escaped |-> FALSE]
                 ELSE [session |-> s, notice |-> Notice("exception", r.raised.msg),
                       requests |-> r.requests, escaped |-> TRUE]

\* isinstance(st.session_state.generated_image, Image.Image)
is_image(v) == v.source \in {"REMOTE", "PLACEHOLDER"}

\* The preview column
preview(sess) == IF is_image(sess.generated_image) THEN sess.generated_image ELSE None

\* The download section: planet is the planet selected in THIS run
download_section(sess, planet, t) ==
    IF is_image(sess.generated_image)
    THEN [enabled |-> TRUE, data |-> pil_to_bytes(sess.generated_image),
          file_name |-> [id |-> planet.id, ts |-> t, ext |-> "png"],
          mime |-> "image/png"]
    ELSE [enabled |-> FALSE]

\* The whole script, run with the widget values of this interaction
Run(sess, chosen_kr, prompt, key, make, resp, t, obj) ==
    LET s1 == [sess EXCEPT !.selected_planet_kr = chosen_kr]
        s2 == api_key_widget(s1, key)
        planet == PLANET_BY_KR[s2.selected_planet_kr]
        h == IF make THEN generate_clicked(s2, planet, prompt, key, resp, obj)
             ELSE [session |-> s2, notice |-> Notice("none", <<>>),
                   requests |-> <<>>, escaped |-> FALSE]
    IN  [session |-> h.session,
         requests |-> h.requests,
         ui |-> IF h.escaped   \* an uncaught exception ends the run
                THEN [notice |-> h.notice, preview |-> None,
                      download |-> [enabled |-> FALSE]]
                ELSE [notice |-> h.notice, preview |-> preview(h.session),
                      download |-> download_section(h.session, planet, t)]]

-----------------------------------------------------------------------------
(* State machine *)

NoResponse == [kind |-> "none"]
NoRequest == [click |-> 0]

Interaction(action, resp, requests) ==
    [action |-> action, resp |-> resp, requests |-> requests]

Init ==
    LET r == Run(session_init, session_init.selected_planet_kr, DEFAULT_PROMPT, <<>>,
                 FALSE, NoResponse, 0, 0)
    IN  /\ session = r.session
        /\ user_prompt = DEFAULT_PROMPT
        /\ api_key = <<>>
        /\ ui = r.ui
        /\ posts = 0
        /\ clicks = 0
        /\ last = Interaction("open", NoResponse, <<>>)
        /\ gen_request = NoRequest
        /\ now = 0

\* A run that is not a click on the generate button
Rerun(action, chosen_kr, prompt, key) ==
    LET r == Run(session, chosen_kr, prompt, key, FALSE, NoResponse, now, 0)
    IN  /\ session' = r.session
        /\ ui' = r.ui
        /\ user_prompt' = prompt
        /\ api_key' = key
        /\ last' = Interaction(action, NoResponse, r.requests)
        /\ UNCHANGED <<posts, clicks, gen_request, now>>

SelectPlanet ==
    \E kr \in (Choices \cap planet_kr_options) \ {session.selected_planet_kr} :
        Rerun("select", kr, user_prompt, api_key)

EnterText ==
    \E t \in UserTexts \ {user_prompt} :
        Rerun("text", session.selected_planet_kr, t, api_key)

EnterKey ==
    \E k \in Keys \ {api_key} :
        Rerun("key", session.selected_planet_kr, user_prompt, k)

Download ==
    /\ ui.download.enabled
    /\ Rerun("download", session.selected_planet_kr, user_prompt, api_key)

Generate ==
    /\ clicks < MaxGenerates
    /\ \E resp \in Responses :
        LET r == Run(session, session.selected_planet_kr, user_prompt, api_key,
                     TRUE, resp, now, clicks + 1)
            sent == r.requests # <<>>
        IN  /\ session' = r.session
            /\ ui' = r.ui
            /\ clicks' = clicks + 1
            /\ posts' = posts + Cardinality({ i \in DOMAIN r.requests :
                                               r.requests[i].url = ENDPOINT })
            /\ last' = Interaction("generate",
                                   IF sent THEN resp ELSE NoResponse, r.requests)
            /\ gen_request' = IF sent
                              THEN [click |-> clicks + 1,
                                    planet |-> PLANET_BY_KR[session.selected_planet_kr].id,
                                    user_text |-> user_prompt]
                              ELSE gen_request
            /\ UNCHANGED <<user_prompt, api_key, now>>

Tick ==
    /\ now < MaxTime
    /\ now' = now + 1
    /\ UNCHANGED <<session, user_prompt, api_key, ui, posts, clicks, last, gen_request>>

Next == SelectPlanet \/ EnterText \/ EnterKey \/ Generate \/ Download \/ Tick

Spec == Init /\ [][Next]_vars

-----------------------------------------------------------------------------
(* Vocabulary of the properties *)

Img == session.generated_image

\* The last run was a click on the generate button that called the service
Attempted == last.action = "generate" /\ last.requests # <<>>

\* Empty or whitespace-only text
Blank(s) == \A i \in DOMAIN s : s[i] \in Whitespace

\* sub occurs in s as a contiguous piece
Contains(s, sub) ==
    \E i \in 1..(Len(s) - Len(sub) + 1) : SubSeq(s, i, i + Len(sub) - 1) = sub

Is2xx(r) == r.kind = "http" /\ r.status_code \in 200..299
IsNon2xx(r) == r.kind = "http" /\ r.status_code \notin 200..299
Is4xx5xx(r) == r.kind = "http" /\ r.status_code \in 400..599

\* The failure outcomes of a 2xx answer: no JSON, an error object, a first
\* data element with neither field, image bytes that cannot be decoded
BadSuccessBody(r) ==
    /\ Is2xx(r)
    /\ r.body \in { EMPTY_BODY, ERROR_BODY, NO_DATA_BODY, NEITHER_BODY, B64_BODY(GARBAGE) }

NoNetworkFailure(r) == r.kind \in { "timeout", "connection_error" }

PlaceholderStored ==
    /\ Img.source = "PLACEHOLDER"
    /\ Img.obj = clicks
    /\ ui.notice.kind = "error"
    /\ ui.preview = Img

-----------------------------------------------------------------------------
(* C1 *)

-----------------------------------------------------------------------------
(* C2 *)

\* C2: a stored image, remote or placeholder, is always 1024 wide and 1024
\* high, whatever the size of the image the service returned.
C2_StoredImageHasRequestedSize ==
    is_image(Img) => (Img.w = 1024 /\ Img.h = 1024)

-----------------------------------------------------------------------------
(* C3 *)

\* C3: a click on generate with an empty or whitespace-only prompt, or an
\* empty or whitespace-only key, shows a warning and sends no request.
C3_BlankInputSendsNothing ==
    [][ (clicks' = clicks + 1 /\ (Blank(user_prompt) \/ Blank(api_key)))
          => (/\ ui'.notice.kind = "warning"
              /\ last'.requests = <<>>
              /\ posts' = posts) ]_vars

C3_Witness ==
    /\ last.action = "generate"
    /\ ~ Blank(user_prompt)
    /\ api_key # <<>> /\ Blank(api_key)
    /\ ui.notice = Notice("warning", <<"api key required">>)
    /\ posts = 0

-----------------------------------------------------------------------------
(* C4 *)

\* C4: a 2xx answer whose first data element has a URL and no encoded image
\* makes the handler send a second request and store a REMOTE image.
C4_UrlFallbackFetches ==
    (Attempted /\ Is2xx(last.resp) /\ last.resp.body = URL_BODY)
        => (Len(last.requests) = 2 /\ Img.source = "REMOTE")

-----------------------------------------------------------------------------
(* C5 *)

\* The notice carries "HTTP ", the status code and the body text
CarriesStatusAndBody(detail, r) ==
    /\ Len(detail) > 0
    /\ Contains(detail, Str(r.status_code))
    /\ SubSeq(detail, Len(detail) - Len(r.body.text) + 1, Len(detail)) = r.body.text

-----------------------------------------------------------------------------
(* C6 *)

\* C6: a click on generate that passes validation sends exactly one request
\* to the endpoint, also when it fails or times out, any other run sends
\* none, so the requests sent never outnumber the clicks.
C6_OneRequestPerGenerate ==
    /\ [](posts <= clicks)
    /\ [][ /\ posts' = posts + Len(last'.requests)
           /\ \A i \in DOMAIN last'.requests : last'.requests[i].url = ENDPOINT
           /\ Len(last'.requests) =
                 IF clicks' = clicks + 1 /\ ~ Blank(user_prompt) /\ ~ Blank(api_key)
                 THEN 1 ELSE 0 ]_<<session, user_prompt, api_key, ui, posts, clicks, last,
                                  gen_request>>

C6_Witness ==
    /\ Attempted
    /\ last.resp = Http(500, EMPTY_BODY)
    /\ clicks = 2
    /\ posts = 2

-----------------------------------------------------------------------------
(* C7 *)

\* C7 as stated: a placeholder made after a network attempt has the
\* diagnostic of that failure as its secondary caption, not the user's text.
C7_CaptionIsDiagnostic ==
    (Attempted /\ Img.source = "PLACEHOLDER")
        => (/\ Img.subtitle = ui.notice.detail
            /\ Img.subtitle # <<"prompt: ">> \o user_prompt)

\* C7, amended: every placeholder is made after a network attempt and has
\* the user's text, behind the label "prompt: ", as its secondary caption;
\* the diagnostic of the failure is shown in the error notice only.
C7_CaptionIsUserText ==
    Img.source = "PLACEHOLDER"
        => (/\ Img.obj = gen_request.click
            /\ Img.subtitle = <<"prompt: ">> \o gen_request.user_text
            /\ last.action = "generate"
                  => (/\ Attempted
                      /\ gen_request.user_text = user_prompt
                      /\ ui.notice.kind = "error"
                      /\ ui.notice.detail # <<>>
                      /\ ui.notice.detail # Img.subtitle))

C7_Witness ==
    /\ Attempted
    /\ last.resp = Http(200, NEITHER_BODY)
    /\ Img.source = "PLACEHOLDER"
    /\ Img.subtitle = <<"prompt: ", " ", "a">>
    /\ ui.notice.detail = NO_IMAGE_DATA

-----------------------------------------------------------------------------
(* C8 *)

\* The credentials worth protecting; no text the user types as a prompt is one
Secrets == { k \in Keys : ~ Blank(k) }

HoldsSecret(text) == \E k \in Secrets : Contains(text, k)

\* C8: the session state has the two fields selected planet and generated
\* image and no other, the first is a planet name, and no text of the second
\* holds a credential.
C8_CredentialNotInSession ==
    /\ DOMAIN session = { "selected_planet_kr", "generated_image" }
    /\ session.selected_planet_kr \in planet_kr_options
    /\ \/ Img = None
       \/ /\ is_image(Img)
          /\ DOMAIN Img = { "source", "w", "h", "title", "subtitle", "obj" }
          /\ ~ HoldsSecret(Img.title)
          /\ ~ HoldsSecret(Img.subtitle)

C8_Witness ==
    /\ Attempted
    /\ api_key \in Secrets
    /\ last.requests[1].authorization = api_key
    /\ Img.source = "PLACEHOLDER"
    /\ DOMAIN session = { "selected_planet_kr", "generated_image" }

-----------------------------------------------------------------------------
(* C9 *)

\* C9: an offered download is named after the planet of the request that
\* produced the stored image, with a timestamp, and is an image/png, also
\* after the planet selection has changed.
C9_FilenameNamesImagePlanet ==
    ui.download.enabled
        => (/\ Img.obj = gen_request.click
            /\ ui.download.file_name.id = gen_request.planet
            /\ ui.download.file_name.ts \in 0..now
            /\ ui.download.mime = "image/png")

-----------------------------------------------------------------------------
(* C10 *)

\* C10: right after a click on generate the stored image is absent or the
\* one that click made, and in every state the preview and the enabled
\* download button are there exactly when an image is stored.
C10_NewGenerateSupersedes ==
    /\ []( /\ (ui.preview # None) <=> is_image(Img)
           /\ ui.download.enabled <=> is_image(Img)
           /\ is_image(Img) => ui.preview = Img )
    /\ [][ clicks' = clicks + 1
            => \/ Img' = None
               \/ is_image(Img') /\ Img'.obj = clicks' ]_vars

C10_Witness ==
    /\ last.action = "generate"
    /\ clicks = 2
    /\ gen_request.click = 1
    /\ Img = None
    /\ ~ ui.download.enabled

====
